---------------------------- MODULE Spec2Model ----------------------------
(***************************************************************************)
(* Truss: the analysis pipeline of `truss check`.                          *)
(*                                                                         *)
(*   parser/importExtractor.ts   resolveImportToFile, parseImportsFromFile *)
(*   graph/dependencyGraph.ts    buildDependencyEdges                      *)
(*   core/reporter.ts (80-206)   matchLayer, evaluateRules,                *)
(*                               applySuppressions                         *)
(*   core/engine.ts              runCheck, emptyReport                     *)
(*                                                                         *)
(* Strings are sequences of characters.  A character of the model is a     *)
(* token ("/", "ui", ".ts", "*", ...) that stands for an indivisible run   *)
(* of characters, so that startsWith, concatenation and comparison are     *)
(* computed on the text and not assumed.  A file-system path is a sequence *)
(* of segments, each segment a string; Join writes it with "/".            *)
(* A value that may be null is a sequence of length 0 (null) or 1.         *)
(***************************************************************************)
EXTENDS Integers, Sequences, FiniteSets, TLC

VARIABLES
    fs,          \* the file system: regular files, directories, entries whose stat fails, unreadable files
    sources,     \* source text of the files, as the import forms the AST walk meets, in walk order
    env,         \* what the external collaborators return: the config loader and the file scanner
    input,       \* the arguments of the operation under study
    pc,          \* "ready" before the operation has run, "done" after
    edges,       \* DependencyEdge[] built by the last operation (or the thrown marker)
    violations,  \* Violation[] produced by evaluateRules
    output       \* the value the operation returned

vars == <<fs, sources, env, input, pc, edges, violations, output>>

----------------------------------------------------------------------------
(* Bounds of the model.                                                    *)

MaxImports == 2

MaxEntries == 2

MaxRules == 2

MaxSuppressions == 2

MaxEdges == 2

MaxViolations == 3

MaxPatterns == 2

MaxLookups == 3

----------------------------------------------------------------------------
(* Generic helpers.                                                        *)

Range(s) == {s[i] : i \in DOMAIN s}

SeqsUpTo(S, n) == UNION {[1..k -> S] : k \in 0..n}

\* The subsets of S of at most n elements.
RECURSIVE SubsetsUpTo(_, _)
SubsetsUpTo(S, n) ==
    IF n = 0 THEN {{}}
    ELSE LET smaller == SubsetsUpTo(S, n - 1)
         IN  smaller \cup {T \cup {x} : T \in smaller, x \in S}

IsPrefix(p, s) == Len(p) <= Len(s) /\ SubSeq(s, 1, Len(p)) = p

IsProperPrefix(p, s) == Len(p) < Len(s) /\ SubSeq(s, 1, Len(p)) = p

Null == <<>>

Some(v) == <<v>>

\* What a call did: returned a value, or threw.
Returned(v) == [threw |-> FALSE, value |-> v]

Thrown == [threw |-> TRUE, value |-> <<>>]

----------------------------------------------------------------------------
(* Paths (node:path, POSIX).                                               *)

DOT == <<".">>

DOTDOT == <<"..">>

\* rel.split(path.sep).join("/"): the segments written with "/" between them.
RECURSIVE Join(_)
Join(segs) ==
    IF segs = <<>> THEN <<>>
    ELSE IF Len(segs) = 1 THEN segs[1]
    ELSE segs[1] \o <<"/">> \o Join(Tail(segs))

\* path.resolve(base, p): p's segments applied to the absolute path base.
RECURSIVE pathResolve(_, _)
pathResolve(base, segs) ==
    IF segs = <<>> THEN base
    ELSE LET s == Head(segs)
             next == IF s = DOT THEN base
                     ELSE IF s = DOTDOT
                          THEN (IF base = <<>> THEN base ELSE SubSeq(base, 1, Len(base) - 1))
                          ELSE Append(base, s)
         IN  pathResolve(next, Tail(segs))

\* path.dirname of an absolute path.
pathDirname(abs) == IF abs = <<>> THEN abs ELSE SubSeq(abs, 1, Len(abs) - 1)

\* `${p}${ext}`: the characters of ext appended to the text of p.
AppendText(abs, ext) ==
    IF abs = <<>> THEN << <<ext>> >>
    ELSE [abs EXCEPT ![Len(abs)] = Append(@, ext)]

\* path.join(p, `index${ext}`)
JoinIndex(abs, ext) == Append(abs, <<"index", ext>>)

RECURSIVE CommonPrefixLen(_, _)
CommonPrefixLen(a, b) ==
    IF a = <<>> \/ b = <<>> \/ Head(a) # Head(b) THEN 0
    ELSE 1 + CommonPrefixLen(Tail(a), Tail(b))

\* path.relative(from, to), as segments.
pathRelative(from, to) ==
    LET k == CommonPrefixLen(from, to)
    IN  [i \in 1..(Len(from) - k) |-> DOTDOT] \o SubSeq(to, k + 1, Len(to))


\* The segments of a path text: the runs between "/" (empty runs included).
RECURSIVE SplitSlash(_)
SplitSlash(str) ==
    IF str = <<>> THEN << <<>> >>
    ELSE LET rest == SplitSlash(Tail(str))
         IN  IF Head(str) = "/" THEN << <<>> >> \o rest
             ELSE << <<Head(str)>> \o Head(rest) >> \o Tail(rest)

NonEmptySeg(seg) == seg # <<>>

\* path.resolve(base, text): an absolute text starts again from the root.
pathResolveText(base, str) ==
    pathResolve(IF str # <<>> /\ Head(str) = "/" THEN <<>> ELSE base,
                SelectSeq(SplitSlash(str), NonEmptySeg))

----------------------------------------------------------------------------
(* String comparison.                                                      *)

\* The characters in collation order; the characters of one class collate as
\* equal (String.prototype.localeCompare returns 0 for canonically equivalent
\* strings, such as a precomposed and a decomposed spelling of one name).
CollationClasses ==
    << {"/"}, {"."}, {".."}, {"*"}, {".cjs"}, {".cts"}, {".js"}, {".jsx"}, {".mjs"},
       {".mts"}, {".ts"}, {".tsx"}, {"a"}, {"b"}, {"cafe_nfc", "cafe_nfd"}, {"data"},
       {"index"}, {"lib"}, {"misc"}, {"react"}, {"repo"}, {"ui"}, {"x"}, {"y"} >>

CollationKey(c) == CHOOSE i \in DOMAIN CollationClasses : c \in CollationClasses[i]

\* a.localeCompare(b): negative, 0 or positive.
RECURSIVE localeCompare(_, _)
localeCompare(a, b) ==
    IF a = <<>> /\ b = <<>> THEN 0
    ELSE IF a = <<>> THEN -1
    ELSE IF b = <<>> THEN 1
    ELSE IF CollationKey(Head(a)) < CollationKey(Head(b)) THEN -1
    ELSE IF CollationKey(Head(a)) > CollationKey(Head(b)) THEN 1
    ELSE localeCompare(Tail(a), Tail(b))

\* Characters whose text begins with "." and with "..".
DotChars == {".", "..", ".ts", ".tsx", ".js", ".jsx", ".mts", ".cts", ".mjs", ".cjs"}

DotDotChars == {".."}

startsWithChar(str, S) == str # <<>> /\ Head(str) \in S

----------------------------------------------------------------------------
(* The file system (node:fs).                                              *)

AllEntries(f) == f.files \cup f.dirs \cup f.racy

\* A directory: declared as one, or an ancestor of some entry.
IsDirectory(f, p) == p \in f.dirs \/ \E q \in AllEntries(f) : IsProperPrefix(p, q)

existsSync(f, p) == p \in AllEntries(f) \/ IsDirectory(f, p)

\* fs.statSync throws when the entry cannot be stat'ed (it vanished after the
\* existence check, or a path component denies access).
statSyncThrows(f, p) == p \in f.racy

statIsFile(f, p) == p \in f.files

\* fs.readFileSync throws on a directory and on a file it may not read.
readFileSyncThrows(f, p) == p \notin f.files \/ p \in f.unreadable

----------------------------------------------------------------------------
(* parser/importExtractor.ts                                               *)

RESOLVABLE_EXTENSIONS == <<".ts", ".tsx", ".js", ".jsx", ".mts", ".cts", ".mjs", ".cjs">>

\* A conversion that does not test for a path outside the repo.
toRepoRelativePosixUnchecked(repoRoot, absPath) == Some(Join(pathRelative(repoRoot, absPath)))

\* null when the file is outside the repo, else its repo-relative POSIX path.
toRepoRelativePosix(repoRoot, absPath) ==
    LET rel == Join(pathRelative(repoRoot, absPath))
    IN  IF startsWithChar(rel, DotDotChars) THEN Null ELSE Some(rel)

\* A candidate list with the index files before the extensions.
CandidatesIndexFirst(unresolved) ==
    <<unresolved>>
    \o [i \in DOMAIN RESOLVABLE_EXTENSIONS |-> JoinIndex(unresolved, RESOLVABLE_EXTENSIONS[i])]
    \o [i \in DOMAIN RESOLVABLE_EXTENSIONS |-> AppendText(unresolved, RESOLVABLE_EXTENSIONS[i])]

\* The ordered candidate list of resolveImportToFile.
Candidates(unresolved) ==
    <<unresolved>>
    \o [i \in DOMAIN RESOLVABLE_EXTENSIONS |-> AppendText(unresolved, RESOLVABLE_EXTENSIONS[i])]
    \o [i \in DOMAIN RESOLVABLE_EXTENSIONS |-> JoinIndex(unresolved, RESOLVABLE_EXTENSIONS[i])]

\* The loop over the candidates: the first that exists and is a regular file.
RECURSIVE FirstCandidate(_, _, _)
FirstCandidate(f, repoRoot, cands) ==
    IF cands = <<>> THEN Returned(Null)
    ELSE LET candidate == Head(cands)
         IN  IF ~existsSync(f, candidate) THEN FirstCandidate(f, repoRoot, Tail(cands))
             ELSE IF statSyncThrows(f, candidate) THEN Thrown
             ELSE IF ~statIsFile(f, candidate) THEN FirstCandidate(f, repoRoot, Tail(cands))
             ELSE Returned(toRepoRelativePosix(repoRoot, candidate))

\* The path the specifier names before any extension is tried.
Unresolved(repoRoot, fromFile, specifier) ==
    LET fromAbs == pathResolveText(repoRoot, fromFile)
        baseDir == pathDirname(fromAbs)
    IN  IF startsWithChar(specifier, {"/"})
        THEN pathResolveText(repoRoot, Tail(specifier))
        ELSE pathResolveText(baseDir, specifier)

resolveImportToFile(f, repoRoot, fromFile, specifier) ==
    IF ~startsWithChar(specifier, DotChars) /\ ~startsWithChar(specifier, {"/"})
    THEN Returned(Null)
    ELSE FirstCandidate(f, repoRoot, Candidates(Unresolved(repoRoot, fromFile, specifier)))

\* pushEdge for each import form met by visit, in walk order.  imp is
\* [specifier, line, text]: the specifier, the 1-based line of the node's
\* start and the trimmed slice of the node.
RECURSIVE VisitImports(_, _, _, _, _)
VisitImports(f, repoRoot, file, imps, acc) ==
    IF imps = <<>> THEN Returned(acc)
    ELSE LET imp == Head(imps)
             r == resolveImportToFile(f, repoRoot, file, imp.specifier)
         IN  IF r.threw THEN Thrown
             ELSE IF r.value = Null \/ r.value = Some(<<>>)
                  THEN VisitImports(f, repoRoot, file, Tail(imps), acc)
                  ELSE VisitImports(f, repoRoot, file, Tail(imps),
                           Append(acc, [fromFile |-> file,
                                        toFile |-> r.value[1],
                                        importText |-> imp.text,
                                        line |-> imp.line,
                                        importKind |-> "internal"]))

SourceOf(src, abs) == IF abs \in DOMAIN src THEN src[abs] ELSE <<>>

parseImportsFromFile(f, src, repoRoot, file) ==
    LET abs == pathResolveText(repoRoot, file)
    IN  IF ~existsSync(f, abs) THEN Returned(<<>>)
        ELSE IF readFileSyncThrows(f, abs) THEN Thrown
        ELSE VisitImports(f, repoRoot, file, SourceOf(src, abs), <<>>)

----------------------------------------------------------------------------
(* graph/dependencyGraph.ts                                                *)

\* The comparator of edges.sort: fromFile, then line, then toFile.
EdgeCompare(a, b) ==
    LET c1 == localeCompare(a.fromFile, b.fromFile)
        c2 == a.line - b.line
    IN  IF c1 # 0 THEN c1 ELSE IF c2 # 0 THEN c2 ELSE localeCompare(a.toFile, b.toFile)

\* Array.prototype.sort is stable: an element goes after the elements that
\* compare less than or equal to it.
RECURSIVE InsertEdge(_, _)
InsertEdge(sorted, e) ==
    IF sorted = <<>> THEN <<e>>
    ELSE IF EdgeCompare(sorted[Len(sorted)], e) <= 0 THEN Append(sorted, e)
    ELSE Append(InsertEdge(SubSeq(sorted, 1, Len(sorted) - 1), e), sorted[Len(sorted)])

RECURSIVE SortEdges(_)
SortEdges(es) ==
    IF es = <<>> THEN <<>>
    ELSE InsertEdge(SortEdges(SubSeq(es, 1, Len(es) - 1)), es[Len(es)])

\* The loop over opts.files: the edges of each file pushed in file order.
RECURSIVE CollectEdges(_, _, _, _, _)
CollectEdges(f, src, repoRoot, files, acc) ==
    IF files = <<>> THEN Returned(acc)
    ELSE LET r == parseImportsFromFile(f, src, repoRoot, Head(files))
         IN  IF r.threw THEN Thrown
             ELSE CollectEdges(f, src, repoRoot, Tail(files), acc \o r.value)

buildDependencyEdges(f, src, repoRoot, files) ==
    LET r == CollectEdges(f, src, repoRoot, files, <<>>)
    IN  IF r.threw THEN Thrown ELSE Returned(SortEdges(r.value))

----------------------------------------------------------------------------
(* core/reporter.ts, lines 80-206 (the validator)                          *)

\* A string is falsy when it is null or empty.
Truthy(opt) == opt # Null /\ opt[1] # ""

\* pattern.replace(/\*\*$/, ""): one trailing "**" removed.
NormalizePattern(pattern) ==
    IF Len(pattern) >= 2 /\ pattern[Len(pattern)] = "*" /\ pattern[Len(pattern) - 1] = "*"
    THEN SubSeq(pattern, 1, Len(pattern) - 2)
    ELSE pattern

\* The inner loop of matchLayer: the patterns of one layer, in order.
RECURSIVE AnyPatternMatches(_, _)
AnyPatternMatches(file, patterns) ==
    IF patterns = <<>> THEN FALSE
    ELSE IF IsPrefix(NormalizePattern(Head(patterns)), file) THEN TRUE
    ELSE AnyPatternMatches(file, Tail(patterns))

\* A layer loop that does not stop at the first match: the last match wins.
RECURSIVE matchLayerLastWins(_, _)
matchLayerLastWins(file, layers) ==
    IF layers = <<>> THEN Null
    ELSE LET last == layers[Len(layers)]
         IN  IF AnyPatternMatches(file, last.patterns) THEN Some(last.name)
             ELSE matchLayerLastWins(file, SubSeq(layers, 1, Len(layers) - 1))

\* layers is Object.entries(config.layers): [name, patterns] in entry order.
RECURSIVE matchLayer(_, _)
matchLayer(file, layers) ==
    IF layers = <<>> THEN Null
    ELSE IF AnyPatternMatches(file, Head(layers).patterns) THEN Some(Head(layers).name)
    ELSE matchLayer(file, Tail(layers))

\* A memo that is not keyed by the file: once some file has matched, its
\* layer is returned for every file.
getLayerUnkeyed(cache, file, layers) ==
    IF DOMAIN cache # {}
    THEN [layer |-> Some(cache[CHOOSE x \in DOMAIN cache : TRUE]), cache |-> cache]
    ELSE LET layer == matchLayer(file, layers)
         IN  [layer |-> layer,
              cache |-> IF Truthy(layer)
                        THEN [x \in DOMAIN cache \cup {file} |->
                                 IF x = file THEN layer[1] ELSE cache[x]]
                        ELSE cache]

\* getLayer: the layer of a file and the cache after the call.  The cache
\* fileToLayer is a function from the files that matched to their layers.
getLayer(cache, file, layers) ==
    LET cached == IF file \in DOMAIN cache THEN Some(cache[file]) ELSE Null
    IN  IF Truthy(cached) THEN [layer |-> cached, cache |-> cache]
        ELSE LET layer == matchLayer(file, layers)
             IN  [layer |-> layer,
                  cache |-> IF Truthy(layer)
                            THEN [x \in DOMAIN cache \cup {file} |->
                                     IF x = file THEN layer[1] ELSE cache[x]]
                            ELSE cache]

\* getLayer as lines 229-234 write it: fileToLayer.has(file) decides the hit
\* and fileToLayer.get(file) ?? null is returned.
getLayerHas(cache, file, layers) ==
    IF file \in DOMAIN cache THEN [layer |-> Some(cache[file]), cache |-> cache]
    ELSE LET layer == matchLayer(file, layers)
         IN  [layer |-> layer,
              cache |-> IF Truthy(layer)
                        THEN [x \in DOMAIN cache \cup {file} |->
                                 IF x = file THEN layer[1] ELSE cache[x]]
                        ELSE cache]

\* rule.message ?? `${fromLayer} layer must not depend on ${toLayer} layer.`
ViolationReason(rule, fromLayer, toLayer) ==
    IF rule.message # Null THEN rule.message[1]
    ELSE <<fromLayer, " layer must not depend on ", toLayer, " layer.">>

\* A rule loop that stops at the first rule that fires.
RECURSIVE RuleViolationsFirstOnly(_, _, _, _)
RuleViolationsFirstOnly(rules, edge, fromLayer, toLayer) ==
    IF rules = <<>> THEN <<>>
    ELSE LET rule == Head(rules)
         IN  IF rule.from # fromLayer \/ toLayer \notin Range(rule.disallow)
             THEN RuleViolationsFirstOnly(Tail(rules), edge, fromLayer, toLayer)
             ELSE <<[ruleName |-> rule.name,
                     fromLayer |-> fromLayer,
                     toLayer |-> toLayer,
                     edge |-> edge,
                     reason |-> ViolationReason(rule, fromLayer, toLayer)]>>

\* The inner loop of evaluateRules: the rules, in declared order, on one edge.
RECURSIVE RuleViolations(_, _, _, _)
RuleViolations(rules, edge, fromLayer, toLayer) ==
    IF rules = <<>> THEN <<>>
    ELSE LET rule == Head(rules)
             rest == RuleViolations(Tail(rules), edge, fromLayer, toLayer)
         IN  IF rule.from # fromLayer THEN rest
             ELSE IF toLayer \notin Range(rule.disallow) THEN rest
             ELSE <<[ruleName |-> rule.name,
                     fromLayer |-> fromLayer,
                     toLayer |-> toLayer,
                     edge |-> edge,
                     reason |-> ViolationReason(rule, fromLayer, toLayer)]>> \o rest

\* The outer loop of evaluateRules, the cache threaded through it.
RECURSIVE EvaluateEdges(_, _, _, _)
EvaluateEdges(config, es, cache, acc) ==
    IF es = <<>> THEN [violations |-> acc, fileToLayer |-> cache]
    ELSE LET edge == Head(es)
             f == getLayer(cache, edge.fromFile, config.layers)
             t == getLayer(f.cache, edge.toFile, config.layers)
         IN  IF ~Truthy(f.layer) \/ ~Truthy(t.layer)
             THEN EvaluateEdges(config, Tail(es), t.cache, acc)
             ELSE EvaluateEdges(config, Tail(es), t.cache,
                      acc \o RuleViolations(config.rules, edge, f.layer[1], t.layer[1]))

EmptyCache == [x \in {} |-> ""]

evaluateRules(config, es) == EvaluateEdges(config, es, EmptyCache, <<>>)

\* A find that returns the last matching entry instead of the first.
RECURSIVE FindSuppressionLast(_, _)
FindSuppressionLast(suppressions, v) ==
    IF suppressions = <<>> THEN Null
    ELSE LET last == suppressions[Len(suppressions)]
         IN  IF last.file = v.edge.fromFile /\ last.rule = v.ruleName
             THEN Some(last)
             ELSE FindSuppressionLast(SubSeq(suppressions, 1, Len(suppressions) - 1), v)

\* suppressions.find(x => x.file === v.edge.fromFile && x.rule === v.ruleName)
RECURSIVE FindSuppression(_, _)
FindSuppression(suppressions, v) ==
    IF suppressions = <<>> THEN Null
    ELSE IF Head(suppressions).file = v.edge.fromFile /\ Head(suppressions).rule = v.ruleName
         THEN Some(Head(suppressions))
         ELSE FindSuppression(Tail(suppressions), v)

\* { ...v, suppressionReason: s.reason }
WithSuppression(v, s) ==
    [ruleName |-> v.ruleName, fromLayer |-> v.fromLayer, toLayer |-> v.toLayer,
     edge |-> v.edge, reason |-> v.reason, suppressionReason |-> s.reason]

byLocation(a, b) ==
    LET c == localeCompare(a.edge.fromFile, b.edge.fromFile)
    IN  IF c # 0 THEN c ELSE a.edge.line - b.edge.line

\* A sort that puts an element before the elements it ties with.
RECURSIVE InsertByLocationUnstable(_, _)
InsertByLocationUnstable(sorted, v) ==
    IF sorted = <<>> THEN <<v>>
    ELSE IF byLocation(sorted[Len(sorted)], v) < 0 THEN Append(sorted, v)
    ELSE Append(InsertByLocationUnstable(SubSeq(sorted, 1, Len(sorted) - 1), v),
                sorted[Len(sorted)])

\* Array.prototype.sort is stable: an element goes after those that do not
\* compare greater.
RECURSIVE InsertByLocation(_, _)
InsertByLocation(sorted, v) ==
    IF sorted = <<>> THEN <<v>>
    ELSE IF byLocation(sorted[Len(sorted)], v) <= 0 THEN Append(sorted, v)
    ELSE Append(InsertByLocation(SubSeq(sorted, 1, Len(sorted) - 1), v), sorted[Len(sorted)])

RECURSIVE SortByLocation(_)
SortByLocation(vs) ==
    IF vs = <<>> THEN <<>>
    ELSE InsertByLocation(SortByLocation(SubSeq(vs, 1, Len(vs) - 1)), vs[Len(vs)])

\* A loop that leaves a suppressed violation in the unsuppressed list as well.
RECURSIVE SplitViolationsKeepingAll(_, _, _, _)
SplitViolationsKeepingAll(suppressions, vs, unsup, sup) ==
    IF vs = <<>> THEN [unsuppressed |-> unsup, suppressed |-> sup]
    ELSE LET v == Head(vs)
             s == FindSuppression(suppressions, v)
         IN  IF s # Null
             THEN SplitViolationsKeepingAll(suppressions, Tail(vs), Append(unsup, v),
                                            Append(sup, WithSuppression(v, s[1])))
             ELSE SplitViolationsKeepingAll(suppressions, Tail(vs), Append(unsup, v), sup)

\* The loop of applySuppressions: each violation pushed to one of the lists.
RECURSIVE SplitViolations(_, _, _, _)
SplitViolations(suppressions, vs, unsup, sup) ==
    IF vs = <<>> THEN [unsuppressed |-> unsup, suppressed |-> sup]
    ELSE LET v == Head(vs)
             s == FindSuppression(suppressions, v)
         IN  IF s # Null
             THEN SplitViolations(suppressions, Tail(vs), unsup, Append(sup, WithSuppression(v, s[1])))
             ELSE SplitViolations(suppressions, Tail(vs), Append(unsup, v), sup)

\* config.suppressions is null when the config declares none.
applySuppressions(config, vs) ==
    LET suppressions == IF config.suppressions = Null THEN <<>> ELSE config.suppressions[1]
        split == SplitViolations(suppressions, vs, <<>>, <<>>)
    IN  [unsuppressed |-> SortByLocation(split.unsuppressed),
         suppressed |-> SortByLocation(split.suppressed)]

----------------------------------------------------------------------------
(* core/types.ts, core/engine.ts                                           *)

OK == 0

VIOLATIONS == 1

CONFIG_ERROR == 2

INTERNAL_ERROR == 3

emptyReport ==
    [checkedFiles |-> 0, edges |-> 0, unsuppressed |-> <<>>, suppressed |-> <<>>,
     summary |-> [unsuppressedCount |-> 0, suppressedCount |-> 0, totalCount |-> 0]]

\* loadTrussConfig: the validated config, or ConfigError thrown.
loadTrussConfig(e) == e.load

\* discoverSourceFiles: the repo-relative source files, in scan order, or a
\* file-system failure thrown.
discoverSourceFiles(e) == e.scan

\* A catch block that does not tell ConfigError from the other errors.
CatchBlockUntyped(isConfigError) == [exitCode |-> INTERNAL_ERROR, report |-> emptyReport]

\* The catch block of runCheck.
CatchBlock(isConfigError) ==
    IF isConfigError
    THEN [exitCode |-> CONFIG_ERROR, report |-> emptyReport]
    ELSE [exitCode |-> INTERNAL_ERROR, report |-> emptyReport]

\* An exit code taken from the total count, suppressed violations included.
AssembleReportByTotal(files, es, split) ==
    LET report == [checkedFiles |-> Len(files),
                   edges |-> Len(es),
                   unsuppressed |-> split.unsuppressed,
                   suppressed |-> split.suppressed,
                   summary |-> [unsuppressedCount |-> Len(split.unsuppressed),
                                suppressedCount |-> Len(split.suppressed),
                                totalCount |-> Len(split.unsuppressed) + Len(split.suppressed)]]
    IN  [exitCode |-> IF report.summary.totalCount > 0 THEN VIOLATIONS ELSE OK,
         report |-> report]

\* The report and the exit code, once the lists are known.
AssembleReport(files, es, split) ==
    LET report == [checkedFiles |-> Len(files),
                   edges |-> Len(es),
                   unsuppressed |-> split.unsuppressed,
                   suppressed |-> split.suppressed,
                   summary |-> [unsuppressedCount |-> Len(split.unsuppressed),
                                suppressedCount |-> Len(split.suppressed),
                                totalCount |-> Len(split.unsuppressed) + Len(split.suppressed)]]
    IN  [exitCode |-> IF report.summary.unsuppressedCount > 0 THEN VIOLATIONS ELSE OK,
         report |-> report]

\* runCheck, with the values of its steps: stage is the last step reached,
\* edges and violations are what buildDependencyEdges and evaluateRules
\* returned (empty when the run did not get there).
runCheck(f, src, e, repoRoot) ==
    LET loaded == loadTrussConfig(e)
    IN  IF loaded.threw
        THEN [stage |-> "load", edges |-> <<>>, violations |-> <<>>, result |-> CatchBlock(TRUE)]
        ELSE
        LET config == loaded.value
            scanned == discoverSourceFiles(e)
        IN  IF scanned.threw
            THEN [stage |-> "scan", edges |-> <<>>, violations |-> <<>>, result |-> CatchBlock(FALSE)]
            ELSE IF Len(scanned.value) = 0
            THEN [stage |-> "nofiles", edges |-> <<>>, violations |-> <<>>, result |-> CatchBlock(TRUE)]
            ELSE
            LET files == scanned.value
                built == buildDependencyEdges(f, src, repoRoot, files)
            IN  IF built.threw
                THEN [stage |-> "build", edges |-> <<>>, violations |-> <<>>, result |-> CatchBlock(FALSE)]
                ELSE
                LET es == built.value
                    vs == evaluateRules(config, es).violations
                    split == applySuppressions(config, vs)
                IN  [stage |-> "report", edges |-> es, violations |-> vs,
                     result |-> AssembleReport(files, es, split)]

----------------------------------------------------------------------------
(* The repository the runs are made on.                                    *)

\* path.resolve(opts.repoRoot)
RepoRoot == << <<"repo">> >>

UiA == <<"ui", "/", "a", ".ts">>

DataB == <<"data", "/", "b", ".ts">>

MiscX == <<"misc", "/", "x", ".ts">>

Abs(file) == pathResolveText(RepoRoot, file)

Import(specifier, line, text) == [specifier |-> specifier, line |-> line, text |-> text]

\* The import forms a source file may hold, without their lines.
ImportUiA == [specifier |-> <<"..", "/", "ui", "/", "a">>, text |-> "import a from '../ui/a'"]

ImportDataB == [specifier |-> <<"..", "/", "data", "/", "b">>, text |-> "export * from '../data/b'"]

ImportReact == [specifier |-> <<"react">>, text |-> "require('react')"]

\* The i-th import form of a file stands on line i.
Numbered(forms) == [i \in DOMAIN forms |-> Import(forms[i].specifier, i, forms[i].text)]

Layers ==
    << [name |-> "ui", patterns |-> << <<"ui", "/", "*", "*">> >>],
       [name |-> "data", patterns |-> << <<"data", "/", "*", "*">> >>] >>

NoDataToUi == [name |-> "no-data-to-ui", from |-> "data", disallow |-> <<"ui">>, message |-> Null]

NoDataOut ==
    [name |-> "no-data-out", from |-> "data", disallow |-> <<"ui", "net">>,
     message |-> Some(<<"data is a leaf">>)]

SuppressLegacy == [file |-> DataB, rule |-> "no-data-to-ui", reason |-> "legacy"]

SuppressLeaf == [file |-> DataB, rule |-> "no-data-out", reason |-> "migration"]

\* Two spellings of one name (precomposed and decomposed): different strings
\* that collate as equal.
CafeNfc == <<"data", "/", "cafe_nfc", ".ts">>

CafeNfd == <<"data", "/", "cafe_nfd", ".ts">>

Edge(from, to, line, text) ==
    [fromFile |-> from, toFile |-> to, importText |-> text, line |-> line,
     importKind |-> "internal"]

NoUiToData == [name |-> "no-ui-to-data", from |-> "ui", disallow |-> <<"data">>, message |-> Null]

SuppressAgain == [file |-> DataB, rule |-> "no-data-to-ui", reason |-> "duplicate entry"]

SuppressCafe == [file |-> CafeNfc, rule |-> "no-data-to-ui", reason |-> "generated"]

----------------------------------------------------------------------------
(* Specification Spec: runs of runCheck.                                   *)

RunContents == {Numbered(forms) : forms \in SeqsUpTo({ImportUiA, ImportReact}, MaxImports)}

\* A file of the tree is absent, there but unreadable, or readable.
Absent == [present |-> FALSE, readable |-> FALSE, imports |-> <<>>]

Unreadable == [present |-> TRUE, readable |-> FALSE, imports |-> <<>>]

Readable(c) == [present |-> TRUE, readable |-> TRUE, imports |-> c]

RunFileStates ==
    [ui : {Absent, Unreadable, Readable(Numbered(<<ImportDataB>>))},
     data : {Absent, Unreadable} \cup {Readable(c) : c \in RunContents},
     racy : {{}, {pathResolveText(RepoRoot, <<"ui", "/", "a">>)}}]

TreeOf(st) ==
    LET of == [f \in {UiA, DataB} |-> IF f = UiA THEN st.ui ELSE st.data]
    IN  [fs |-> [files |-> {Abs(f) : f \in {g \in DOMAIN of : of[g].present}},
                 dirs |-> {RepoRoot},
                 racy |-> st.racy,
                 unreadable |-> {Abs(f) : f \in {g \in DOMAIN of : of[g].present /\ ~of[g].readable}}],
         sources |-> [a \in {Abs(f) : f \in {g \in DOMAIN of : of[g].present /\ of[g].readable}} |->
                         of[CHOOSE g \in DOMAIN of : Abs(g) = a].imports]]

RunTrees == {TreeOf(st) : st \in RunFileStates}

RunConfigs ==
    {[layers |-> Layers, rules |-> r, suppressions |-> s] :
        r \in SeqsUpTo({NoDataToUi, NoDataOut}, MaxRules),
        s \in {Null} \cup {Some(x) : x \in SeqsUpTo({SuppressLegacy, SuppressLeaf}, MaxSuppressions)}}

RunEnvs ==
    {[load |-> l, scan |-> sc] :
        l \in {Thrown} \cup {Returned(c) : c \in RunConfigs},
        sc \in {Thrown, Returned(<<>>), Returned(<<DataB>>), Returned(<<UiA, DataB>>)}}

Init ==
    /\ \E tree \in RunTrees : fs = tree.fs /\ sources = tree.sources
    /\ env \in RunEnvs
    /\ input = [repoRoot |-> RepoRoot]
    /\ pc = "ready"
    /\ edges = <<>>
    /\ violations = <<>>
    /\ output = [stage |-> "none"]

RunCheck ==
    /\ pc = "ready"
    /\ LET r == runCheck(fs, sources, env, input.repoRoot)
       IN  /\ output' = [stage |-> r.stage, result |-> r.result]
           /\ edges' = r.edges
           /\ violations' = r.violations
    /\ pc' = "done"
    /\ UNCHANGED <<fs, sources, env, input>>

Next == RunCheck

Spec == Init /\ [][Next]_vars

Done == pc = "done"

Reported == pc = "done" /\ output.stage = "report"

\* The files of the scan whose extraction throws.
FailingFiles ==
    IF env.scan.threw THEN {}
    ELSE {f \in Range(env.scan.value) : parseImportsFromFile(fs, sources, input.repoRoot, f).threw}

\* { ...v } without suppressionReason.
Unannotated(v) ==
    [ruleName |-> v.ruleName, fromLayer |-> v.fromLayer, toLayer |-> v.toLayer,
     edge |-> v.edge, reason |-> v.reason]

Count(seq, x) == Cardinality({i \in DOMAIN seq : seq[i] = x})

(* C1: a run of runCheck that completes the pipeline returns OK exactly    *)
(* when report.summary.unsuppressedCount is 0 and VIOLATIONS otherwise,    *)
(* whatever the number of suppressed violations.                           *)
C1_ExitCodeFollowsUnsuppressed ==
    Reported =>
        /\ output.result.exitCode \in {OK, VIOLATIONS}
        /\ (output.result.exitCode = OK) <=> (output.result.report.summary.unsuppressedCount = 0)

\* A completed run with suppressed violations and none unsuppressed.
C1_Witness ==
    /\ Reported
    /\ output.result.report.summary.suppressedCount > 0
    /\ output.result.report.summary.unsuppressedCount = 0
    /\ output.result.exitCode = OK

(* C4: in every report runCheck returns, totalCount is the sum of          *)
(* unsuppressedCount and suppressedCount, the counts are the lengths of    *)
(* the two lists, and the lists partition the violations evaluateRules     *)
(* produced: each violation is in exactly one list, and nothing else is.   *)
C4_ReportPartitionsViolations ==
    Done =>
        LET rep == output.result.report
            sup == [i \in DOMAIN rep.suppressed |-> Unannotated(rep.suppressed[i])]
        IN  /\ rep.summary.totalCount = rep.summary.unsuppressedCount + rep.summary.suppressedCount
            /\ rep.summary.unsuppressedCount = Len(rep.unsuppressed)
            /\ rep.summary.suppressedCount = Len(rep.suppressed)
            /\ Range(rep.unsuppressed) \cap Range(sup) = {}
            /\ Range(rep.unsuppressed) \cup Range(sup) = Range(violations)
            /\ \A v \in Range(violations) :
                   Count(violations, v) = Count(rep.unsuppressed, v) + Count(sup, v)

\* A report with a violation in each list.
C4_Witness ==
    /\ Reported
    /\ output.result.report.summary.suppressedCount > 0
    /\ output.result.report.summary.unsuppressedCount > 0

(* C5: a failure while extracting the imports of one file (unreadable      *)
(* file, failing stat of a resolution candidate) is isolated to that file: *)
(* it contributes no edge, the run is not aborted and the violations found *)
(* through the other files are reported with exit code OK or VIOLATIONS.   *)
C5_ExtractionFailureIsolated ==
    (Done /\ ~env.load.threw /\ ~env.scan.threw /\ FailingFiles # {}) =>
        LET healthy(f) == f \notin FailingFiles
            rest == buildDependencyEdges(fs, sources, input.repoRoot,
                                         SelectSeq(env.scan.value, healthy))
        IN  /\ output.result.exitCode \in {OK, VIOLATIONS}
            /\ edges = rest.value
            /\ violations = evaluateRules(env.load.value, rest.value).violations

(* C6: runCheck never propagates a failure and never returns a partial     *)
(* report: a configuration load failure or an empty scan gives             *)
(* CONFIG_ERROR with the empty report, any other failure gives             *)
(* INTERNAL_ERROR with the empty report, and a report that is not empty    *)
(* comes only with OK or VIOLATIONS.                                       *)
C6_FailuresGiveEmptyReport ==
    Done =>
        LET res == output.result
            configFailure == env.load.threw \/ (~env.scan.threw /\ env.scan.value = <<>>)
            otherFailure == ~configFailure /\ (env.scan.threw \/ FailingFiles # {})
        IN  /\ res.exitCode \in {OK, VIOLATIONS, CONFIG_ERROR, INTERNAL_ERROR}
            /\ configFailure => res.exitCode = CONFIG_ERROR /\ res.report = emptyReport
            /\ otherFailure => res.exitCode = INTERNAL_ERROR /\ res.report = emptyReport
            /\ ~configFailure /\ ~otherFailure => res.exitCode \in {OK, VIOLATIONS}
            /\ res.report # emptyReport => res.exitCode \in {OK, VIOLATIONS}

\* A run aborted by an extraction failure although another file holds a violation.
C6_Witness ==
    /\ Done
    /\ ~env.load.threw /\ ~env.scan.threw /\ FailingFiles # {}
    /\ output.result.exitCode = INTERNAL_ERROR
    /\ output.result.report = emptyReport

----------------------------------------------------------------------------
(* Specification SpecSuppress: calls of applySuppressions.                 *)

\* Violations as evaluateRules produces them, one list per edge.
SuppressEdges ==
    << Edge(DataB, UiA, 1, "import a from '../ui/a'"),
       Edge(DataB, UiA, 2, "require('../ui/a')"),
       Edge(CafeNfc, UiA, 1, "import a from '../ui/a'"),
       Edge(CafeNfd, UiA, 1, "import a from '../ui/a'"),
       Edge(UiA, DataB, 1, "export * from '../data/b'") >>

SuppressViolations ==
    Range(evaluateRules([layers |-> Layers,
                         rules |-> <<NoDataToUi, NoDataOut, NoUiToData>>,
                         suppressions |-> Null],
                        SuppressEdges).violations)

SuppressInputs ==
    [config : {[layers |-> Layers, rules |-> <<NoDataToUi, NoDataOut, NoUiToData>>, suppressions |-> x] :
                  x \in {Null} \cup {Some(l) : l \in SeqsUpTo({SuppressLegacy, SuppressAgain, SuppressCafe},
                                                             MaxSuppressions)}},
     violations : SeqsUpTo(SuppressViolations, MaxViolations)]

InitSuppress ==
    /\ input \in SuppressInputs
    /\ fs = <<>>
    /\ sources = <<>>
    /\ env = <<>>
    /\ pc = "ready"
    /\ edges = <<>>
    /\ violations = input.violations
    /\ output = <<>>

ApplySuppressions ==
    /\ pc = "ready"
    /\ output' = applySuppressions(input.config, violations)
    /\ pc' = "done"
    /\ UNCHANGED <<fs, sources, env, input, edges, violations>>

NextSuppress == ApplySuppressions

SpecSuppress == InitSuppress /\ [][NextSuppress]_vars

(* C2: applySuppressions puts a violation v in the suppressed list exactly *)
(* when some suppression entry has file = v.edge.fromFile and              *)
(* rule = v.ruleName, whatever the import line; its suppressionReason is   *)
(* the reason of the first such entry in declared order; otherwise v is in *)
(* the unsuppressed list.                                                  *)
C2_SuppressedIffEntryMatches ==
    Done =>
        LET entries == IF input.config.suppressions = Null THEN <<>>
                       ELSE input.config.suppressions[1]
            matching(v) == {i \in DOMAIN entries :
                               entries[i].file = v.edge.fromFile /\ entries[i].rule = v.ruleName}
            first(v) == CHOOSE i \in matching(v) : \A j \in matching(v) : i <= j
            plain == {Unannotated(w) : w \in Range(output.suppressed)}
        IN  \A v \in Range(violations) :
                IF matching(v) # {}
                THEN /\ v \notin Range(output.unsuppressed)
                     /\ v \in plain
                     /\ \A w \in Range(output.suppressed) :
                            Unannotated(w) = v => w.suppressionReason = entries[first(v)].reason
                ELSE /\ v \in Range(output.unsuppressed)
                     /\ v \notin plain

\* Two violations of one file and rule on different lines are suppressed by
\* the first of two matching entries, and a violation of another file is not.
C2_Witness ==
    /\ Done
    /\ input.config.suppressions = Some(<<SuppressLegacy, SuppressAgain>>)
    /\ \E w \in Range(output.suppressed) :
           w.edge.line = 2 /\ w.suppressionReason = "legacy"
    /\ \E w \in Range(output.suppressed) :
           w.edge.line = 1 /\ w.suppressionReason = "legacy"
    /\ \E v \in Range(output.unsuppressed) : v.edge.fromFile = CafeNfc

(* C12: for every input list of violations, in any order, each of the two  *)
(* lists applySuppressions returns is in ascending order of edge.fromFile  *)
(* (as localeCompare orders file names) and, among equal file names, of    *)
(* edge.line; the violations that tie on both keep the relative order they *)
(* had in the input.                                                       *)
C12_SortedByLocationStable ==
    Done =>
        LET files(a, b) == localeCompare(a.edge.fromFile, b.edge.fromFile)
            notAfter(a, b) == files(a, b) < 0 \/ (files(a, b) = 0 /\ a.edge.line <= b.edge.line)
            tie(a, b) == files(a, b) = 0 /\ a.edge.line = b.edge.line
            sorted(l) == \A i, j \in DOMAIN l : i < j => notAfter(l[i], l[j])
            tied(l, x) == SelectSeq(l, LAMBDA y : tie(x, y))
            sup == [i \in DOMAIN output.suppressed |-> Unannotated(output.suppressed[i])]
            inputUnsuppressed == SelectSeq(violations, LAMBDA v : v \in Range(output.unsuppressed))
            inputSuppressed == SelectSeq(violations, LAMBDA v : v \in Range(sup))
        IN  /\ sorted(output.unsuppressed)
            /\ sorted(output.suppressed)
            /\ \A x \in Range(violations) :
                   /\ tied(output.unsuppressed, x) = tied(inputUnsuppressed, x)
                   /\ tied(sup, x) = tied(inputSuppressed, x)

\* Three unsuppressed violations given with the line-2 one first: it moves
\* to the end, and the two of line 1, found by different rules on the same
\* import, stay in the order of the input.
C12_Witness ==
    /\ Done
    /\ input.config.suppressions = Null
    /\ Len(violations) = 3
    /\ violations[1].edge = Edge(DataB, UiA, 2, "require('../ui/a')")
    /\ violations[2].edge = Edge(DataB, UiA, 1, "import a from '../ui/a'")
    /\ violations[3].edge = violations[2].edge
    /\ violations[2].ruleName = NoDataOut.name
    /\ violations[3].ruleName = NoDataToUi.name
    /\ output.unsuppressed = <<violations[2], violations[3], violations[1]>>
    /\ output.suppressed = <<>>

----------------------------------------------------------------------------
(* Specification SpecEvaluate: calls of evaluateRules.                     *)

\* A second rule of the same name, with the target layer listed twice.
NoDataToUiAgain ==
    [name |-> "no-data-to-ui", from |-> "data", disallow |-> <<"ui", "net", "ui">>,
     message |-> Some(<<"declared twice">>)]

EvaluateEdgeMenu ==
    { Edge(DataB, UiA, 1, "import a from '../ui/a'"),
      Edge(DataB, UiA, 2, "require('../ui/a')"),
      Edge(UiA, DataB, 1, "export * from '../data/b'"),
      Edge(MiscX, UiA, 1, "import('../ui/a')"),
      Edge(DataB, MiscX, 1, "import x from '../misc/x'") }

EvaluateInputs ==
    [config : {[layers |-> Layers, rules |-> r, suppressions |-> Null] :
                  r \in SeqsUpTo({NoDataToUi, NoDataToUiAgain, NoDataOut, NoUiToData}, MaxRules)},
     edges : SeqsUpTo(EvaluateEdgeMenu, MaxEdges)]

InitEvaluate ==
    /\ input \in EvaluateInputs
    /\ fs = <<>>
    /\ sources = <<>>
    /\ env = <<>>
    /\ pc = "ready"
    /\ edges = input.edges
    /\ violations = <<>>
    /\ output = <<>>

EvaluateRules ==
    /\ pc = "ready"
    /\ LET r == evaluateRules(input.config, edges)
       IN  /\ violations' = r.violations
           /\ output' = r.fileToLayer
    /\ pc' = "done"
    /\ UNCHANGED <<fs, sources, env, input, edges>>

NextEvaluate == EvaluateRules

SpecEvaluate == InitEvaluate /\ [][NextEvaluate]_vars

(* C3: evaluateRules emits exactly one violation for every pair            *)
(* (edge, rule) such that both endpoints of the edge have a layer,         *)
(* rule.from is the layer of edge.fromFile and rule.disallow contains the  *)
(* layer of edge.toFile; the violations stand in edge order and, for one   *)
(* edge, in declared rule order (no short-circuit, no deduplication); an   *)
(* edge with an endpoint in no layer yields none.                          *)
C3_OneViolationPerMatchingPair ==
    Done =>
        LET rules == input.config.rules
            from(i) == matchLayer(edges[i].fromFile, input.config.layers)
            to(i) == matchLayer(edges[i].toFile, input.config.layers)
            fires(i, j) ==
                /\ from(i) # Null
                /\ to(i) # Null
                /\ rules[j].from = from(i)[1]
                /\ \E k \in DOMAIN rules[j].disallow : rules[j].disallow[k] = to(i)[1]
            pairs == {p \in (DOMAIN edges) \X (DOMAIN rules) : fires(p[1], p[2])}
            position(p) ==
                Cardinality({q \in pairs : q[1] < p[1] \/ (q[1] = p[1] /\ q[2] <= p[2])})
        IN  /\ Len(violations) = Cardinality(pairs)
            /\ \A p \in pairs :
                   /\ violations[position(p)].edge = edges[p[1]]
                   /\ violations[position(p)].ruleName = rules[p[2]].name
                   /\ violations[position(p)].fromLayer = from(p[1])[1]
                   /\ violations[position(p)].toLayer = to(p[1])[1]

\* One edge matched by two rules gives two violations in rule order, and an
\* edge from a file of no layer gives none.
C3_Witness ==
    /\ Done
    /\ edges = <<Edge(MiscX, UiA, 1, "import('../ui/a')"),
                 Edge(DataB, UiA, 1, "import a from '../ui/a'")>>
    /\ input.config.rules = <<NoDataOut, NoDataToUi>>
    /\ Len(violations) = 2
    /\ violations[1].ruleName = "no-data-out"
    /\ violations[2].ruleName = "no-data-to-ui"
    /\ violations[1].edge = violations[2].edge

----------------------------------------------------------------------------
(* Specification SpecEdges: calls of buildDependencyEdges.                 *)

Orderings(S) == {l \in [1..Cardinality(S) -> S] : \A i, j \in DOMAIN l : l[i] = l[j] => i = j}

\* The import forms of a file each on a line of its own, or all on line 1.
OneLine(forms) == [i \in DOMAIN forms |-> Import(forms[i].specifier, 1, forms[i].text)]

EdgeContents ==
    UNION {{Numbered(forms), OneLine(forms)} :
              forms \in SeqsUpTo({ImportUiA, ImportReact}, MaxImports)}

EdgeTrees ==
    {[fs |-> [files |-> {Abs(UiA), Abs(DataB), Abs(CafeNfc), Abs(CafeNfd)},
              dirs |-> {RepoRoot}, racy |-> {}, unreadable |-> {}],
      sources |-> [a \in {Abs(DataB), Abs(CafeNfc), Abs(CafeNfd)} |->
                      IF a = Abs(DataB) THEN b ELSE IF a = Abs(CafeNfc) THEN c ELSE d]] :
        b \in {<<>>, Numbered(<<ImportUiA>>)}, c \in EdgeContents, d \in EdgeContents}

EdgeFileLists == UNION {Orderings(S) : S \in SUBSET {DataB, CafeNfc, CafeNfd}}

InitEdges ==
    /\ \E tree \in EdgeTrees : fs = tree.fs /\ sources = tree.sources
    /\ input \in [repoRoot : {RepoRoot}, files : EdgeFileLists]
    /\ env = <<>>
    /\ pc = "ready"
    /\ edges = <<>>
    /\ violations = <<>>
    /\ output = Returned(<<>>)

BuildDependencyEdges ==
    /\ pc = "ready"
    /\ LET r == buildDependencyEdges(fs, sources, input.repoRoot, input.files)
       IN  /\ output' = r
           /\ edges' = r.value
    /\ pc' = "done"
    /\ UNCHANGED <<fs, sources, env, input, violations>>

NextEdges == BuildDependencyEdges

SpecEdges == InitEdges /\ [][NextEdges]_vars

(* C7: for every set of files and every order in which                     *)
(* buildDependencyEdges processes them, the returned edge list is sorted   *)
(* ascending by fromFile, then line, then toFile, and it is the same list  *)
(* for every processing order.                                             *)
C7_EdgeListIndependentOfOrder ==
    (Done /\ ~output.threw) =>
        /\ \A i, j \in DOMAIN edges :
               i < j =>
                   \/ localeCompare(edges[i].fromFile, edges[j].fromFile) < 0
                   \/ /\ localeCompare(edges[i].fromFile, edges[j].fromFile) = 0
                      /\ edges[i].line < edges[j].line
                   \/ /\ localeCompare(edges[i].fromFile, edges[j].fromFile) = 0
                      /\ edges[i].line = edges[j].line
                      /\ localeCompare(edges[i].toFile, edges[j].toFile) <= 0
        /\ \A other \in Orderings(Range(input.files)) :
               buildDependencyEdges(fs, sources, input.repoRoot, other) = output

\* The part of C7 that the code keeps: the list is sorted by the comparator.
C7_EdgeListSorted ==
    (Done /\ ~output.threw) =>
        \A i, j \in DOMAIN edges :
            i < j =>
                \/ localeCompare(edges[i].fromFile, edges[j].fromFile) < 0
                \/ /\ localeCompare(edges[i].fromFile, edges[j].fromFile) = 0
                   /\ edges[i].line < edges[j].line
                \/ /\ localeCompare(edges[i].fromFile, edges[j].fromFile) = 0
                   /\ edges[i].line = edges[j].line
                   /\ localeCompare(edges[i].toFile, edges[j].toFile) <= 0

\* The part of C7 that the code keeps when no two files collate as equal.
C7_OrderIndependentWithoutTies ==
    (Done /\ ~output.threw
          /\ \A f, g \in Range(input.files) : f # g => localeCompare(f, g) # 0) =>
        \A other \in Orderings(Range(input.files)) :
            buildDependencyEdges(fs, sources, input.repoRoot, other) = output

----------------------------------------------------------------------------
(* Specification SpecResolve: resolveImportToFile and parseImportsFromFile *)
(* on data/b.ts, over file systems that hold a few of the candidates.      *)

\* The specifiers of the first import form of data/b.ts.
ResolveSpecifiers ==
    { <<".", "/", "x">>,                      \* ./x         -> repo/data/x
      <<".", "/", "x", ".ts">>,               \* ./x.ts      -> repo/data/x.ts
      <<"/", "data", "/", "x">>,              \* /data/x     -> repo/data/x
      <<"..", "/", "..", "/", "lib", "/", "x">>,  \* ../../lib/x -> /lib/x, outside the repo
      <<"..">>,                               \* ..          -> repo
      <<"react">>,                            \* a package
      <<"x">> }                               \* a bare name beside a file x.ts

DataX == << <<"repo">>, <<"data">>, <<"x">> >>

LibX == << <<"lib">>, <<"x">> >>

\* What the file system may hold besides data/b.ts: [path, kind].
ResolveEntries ==
    {[path |-> DataX, kind |-> k] : k \in {"file", "dir"}}
    \cup {[path |-> AppendText(DataX, e), kind |-> "file"] : e \in Range(RESOLVABLE_EXTENSIONS)}
    \cup {[path |-> JoinIndex(DataX, e), kind |-> "file"] : e \in Range(RESOLVABLE_EXTENSIONS)}
    \cup {[path |-> AppendText(DataX, ".ts"), kind |-> k] : k \in {"dir", "racy"}}
    \cup {[path |-> JoinIndex(AppendText(DataX, ".ts"), ".js"), kind |-> "file"]}
    \cup {[path |-> AppendText(LibX, e), kind |-> "file"] : e \in {".ts", ".js"}}
    \cup {[path |-> AppendText(RepoRoot, ".ts"), kind |-> "file"],
          [path |-> JoinIndex(RepoRoot, ".ts"), kind |-> "file"]}

\* No path twice, and nothing below a regular file.
ConsistentEntries(es) ==
    \A a, b \in es :
        /\ (a.path = b.path => a = b)
        /\ ~(a.kind = "file" /\ IsProperPrefix(a.path, b.path))

ResolveFileSystems ==
    {[files |-> {Abs(DataB)} \cup {e.path : e \in {x \in es : x.kind = "file"}},
      dirs |-> {RepoRoot} \cup {e.path : e \in {x \in es : x.kind = "dir"}},
      racy |-> {e.path : e \in {x \in es : x.kind = "racy"}},
      unreadable |-> {}] :
        es \in {x \in SubsetsUpTo(ResolveEntries, MaxEntries) : ConsistentEntries(x)}}

InitResolve ==
    /\ fs \in ResolveFileSystems
    /\ \E first \in ResolveSpecifiers, second \in {<<"react">>, <<".", "/", "x">>} :
           /\ input = [repoRoot |-> RepoRoot, file |-> DataB, specifier |-> first]
           /\ sources = [a \in {Abs(DataB)} |->
                            <<Import(first, 1, "import first"), Import(second, 2, "import second")>>]
    /\ env = <<>>
    /\ pc = "ready"
    /\ edges = <<>>
    /\ violations = <<>>
    /\ output = Returned(Null)

ResolveImportToFile ==
    /\ pc = "ready"
    /\ output' = resolveImportToFile(fs, input.repoRoot, input.file, input.specifier)
    /\ pc' = "resolved"
    /\ UNCHANGED <<fs, sources, env, input, edges, violations>>

ParseImportsFromFile ==
    /\ pc = "ready"
    /\ LET r == parseImportsFromFile(fs, sources, input.repoRoot, input.file)
       IN  /\ output' = r
           /\ edges' = r.value
    /\ pc' = "parsed"
    /\ UNCHANGED <<fs, sources, env, input, violations>>

NextResolve == ResolveImportToFile \/ ParseImportsFromFile

SpecResolve == InitResolve /\ [][NextResolve]_vars

(* C8: for a local specifier, resolveImportToFile tries the raw resolved    *)
(* path, then the raw path with each of .ts .tsx .js .jsx .mts .cts .mjs   *)
(* .cjs appended in that order, then index plus each extension in that     *)
(* order under the raw path; the first candidate that exists and is a      *)
(* regular file is the one returned (as its repo-relative path, null when  *)
(* it is outside the repo), and candidates that exist without being        *)
(* regular files are skipped.                                              *)
C8_FirstRegularCandidateWins ==
    (pc = "resolved" /\ Head(input.specifier) \in DotChars \cup {"/"}) =>
        LET raw == Unresolved(input.repoRoot, input.file, input.specifier)
            ext == <<".ts", ".tsx", ".js", ".jsx", ".mts", ".cts", ".mjs", ".cjs">>
            candidate(k) == IF k = 0 THEN raw
                            ELSE IF k <= 8 THEN AppendText(raw, ext[k])
                            ELSE JoinIndex(raw, ext[k - 8])
            regular == {k \in 0..16 : candidate(k) \in fs.files}
            unstatable == {k \in 0..16 : candidate(k) \in fs.racy}
            blocked == \E k \in unstatable : \A j \in regular : k < j
            first == candidate(CHOOSE k \in regular : \A j \in regular : k <= j)
        IN  /\ output.threw <=> blocked
            /\ (~blocked /\ regular = {}) => output.value = Null
            /\ (~blocked /\ regular # {}) =>
                   output.value =
                       IF IsPrefix(input.repoRoot, first)
                       THEN Some(Join(SubSeq(first, Len(input.repoRoot) + 1, Len(first))))
                       ELSE Null

\* ./x where x is a directory holding index.ts and x.js is a file: the
\* directory is skipped and x.js, tried before x/index.ts, is returned.
C8_Witness ==
    /\ pc = "resolved"
    /\ input.specifier = <<".", "/", "x">>
    /\ JoinIndex(DataX, ".ts") \in fs.files
    /\ AppendText(DataX, ".js") \in fs.files
    /\ output = Returned(Some(<<"data", "/", "x", ".js">>))

(* C9: the extractor emits an edge for a detected specifier only if the    *)
(* specifier begins with "." or "/" and resolves to an existing regular    *)
(* file inside the repo root; a bare specifier, a specifier whose first    *)
(* existing regular candidate is outside the repo root and a specifier     *)
(* with no existing candidate produce no edge; every emitted edge has      *)
(* importKind "internal".                                                  *)
C9_EdgesOnlyForLocalFilesInRepo ==
    (pc = "parsed" /\ ~output.threw) =>
        LET imports == sources[Abs(input.file)]
            ext == <<".ts", ".tsx", ".js", ".jsx", ".mts", ".cts", ".mjs", ".cjs">>
            local(i) == Head(imports[i].specifier) \in DotChars \cup {"/"}
            raw(i) == Unresolved(input.repoRoot, input.file, imports[i].specifier)
            candidate(i, k) == IF k = 0 THEN raw(i)
                               ELSE IF k <= 8 THEN AppendText(raw(i), ext[k])
                               ELSE JoinIndex(raw(i), ext[k - 8])
            regular(i) == {k \in 0..16 : candidate(i, k) \in fs.files}
            first(i) == candidate(i, CHOOSE k \in regular(i) : \A j \in regular(i) : k <= j)
            emitted(i) == \E e \in Range(edges) : e.line = imports[i].line
            target(e) == pathResolveText(input.repoRoot, e.toFile)
        IN  /\ \A e \in Range(edges) :
                   /\ e.importKind = "internal"
                   /\ e.fromFile = input.file
                   /\ target(e) \in fs.files
                   /\ IsProperPrefix(input.repoRoot, target(e))
                   /\ \E i \in DOMAIN imports :
                          /\ imports[i].line = e.line /\ imports[i].text = e.importText
                          /\ local(i)
                          /\ \E k \in 0..16 : candidate(i, k) = target(e)
            /\ \A i \in DOMAIN imports :
                   /\ ~local(i) => ~emitted(i)
                   /\ (local(i) /\ regular(i) = {}) => ~emitted(i)
                   /\ (local(i) /\ regular(i) # {} /\ ~IsPrefix(input.repoRoot, first(i)))
                          => ~emitted(i)

\* ../../lib/x finds lib/x.ts outside the repo and gives no edge; ./x on the
\* next line finds data/x.ts and gives the only edge.
C9_Witness ==
    /\ pc = "parsed"
    /\ ~output.threw
    /\ input.specifier = <<"..", "/", "..", "/", "lib", "/", "x">>
    /\ AppendText(LibX, ".ts") \in fs.files
    /\ edges = <<Edge(DataB, <<"data", "/", "x", ".ts">>, 2, "import second")>>

----------------------------------------------------------------------------
(* Specification SpecLayers: calls of matchLayer.                          *)

LayerPatterns ==
    { <<"ui", "/", "*", "*">>,     \* ui/**
      <<"ui", "/", "a">>,          \* ui/a : no wildcard
      <<"ui", "/", "*">>,          \* ui/* : not a trailing "**"
      <<"data", "/", "*", "*">>,   \* data/**
      <<"*", "*">> }               \* **   : the empty prefix

LayerDeclarations ==
    {<<>>}
    \cup {<<[name |-> n, patterns |-> ps]>> :
             n \in {"ui", "data"}, ps \in SeqsUpTo(LayerPatterns, MaxPatterns)}
    \cup {<<[name |-> n[1], patterns |-> ps], [name |-> n[2], patterns |-> qs]>> :
             n \in {<<"ui", "data">>, <<"data", "ui">>},
             ps \in SeqsUpTo(LayerPatterns, MaxPatterns),
             qs \in SeqsUpTo(LayerPatterns, MaxPatterns)}

InitLayers ==
    /\ input \in [file : {UiA, DataB, <<"ui">>}, layers : LayerDeclarations]
    /\ fs = <<>>
    /\ sources = <<>>
    /\ env = <<>>
    /\ pc = "ready"
    /\ edges = <<>>
    /\ violations = <<>>
    /\ output = Null

MatchLayer ==
    /\ pc = "ready"
    /\ output' = matchLayer(input.file, input.layers)
    /\ pc' = "done"
    /\ UNCHANGED <<fs, sources, env, input, edges, violations>>

NextLayers == MatchLayer

SpecLayers == InitLayers /\ [][NextLayers]_vars

----------------------------------------------------------------------------
(* Specification SpecCache: the calls of getLayer within runs of           *)
(* evaluateRules, in any order and for any file.  output holds the two     *)
(* caches (one per copy of getLayer in the source), the files looked up so *)
(* far in the run, and the last call.                                      *)

CacheFiles == {UiA, DataB, MiscX}

CacheLayers ==
    { <<>>,
      Layers,
      <<[name |-> "data", patterns |-> << <<"data", "/", "*", "*">>, <<"ui", "/", "a">> >>],
        [name |-> "ui", patterns |-> << <<"ui", "/", "*", "*">> >>]>>,
      <<[name |-> "all", patterns |-> << <<"*", "*">> >>]>>,
      <<[name |-> "", patterns |-> << <<"ui", "/", "*", "*">> >>],
        [name |-> "data", patterns |-> << <<"data", "/", "*", "*">> >>]>> }

\* const fileToLayer = new Map(): the state at the start of a run.
FreshRun ==
    [fileToLayer |-> EmptyCache, fileToLayerHas |-> EmptyCache,
     file |-> Null, layer |-> Null, layerHas |-> Null, hit |-> FALSE, lookups |-> <<>>]

InitCache ==
    /\ input \in [layers : CacheLayers]
    /\ fs = <<>>
    /\ sources = <<>>
    /\ env = <<>>
    /\ pc = "ready"
    /\ edges = <<>>
    /\ violations = <<>>
    /\ output = FreshRun

\* One call getLayer(file), by each of the two copies on its own cache.
GetLayer ==
    /\ Len(output.lookups) < MaxLookups
    /\ \E file \in CacheFiles :
          LET r == getLayer(output.fileToLayer, file, input.layers)
              h == getLayerHas(output.fileToLayerHas, file, input.layers)
          IN  output' = [fileToLayer |-> r.cache, fileToLayerHas |-> h.cache,
                         file |-> Some(file), layer |-> r.layer, layerHas |-> h.layer,
                         hit |-> file \in DOMAIN output.fileToLayer,
                         lookups |-> Append(output.lookups, file)]
    /\ pc' = "looked"
    /\ UNCHANGED <<fs, sources, env, input, edges, violations>>

\* The next call of evaluateRules, with its own config and its own Map.
StartEvaluateRules ==
    /\ pc = "looked"
    /\ input' \in [layers : CacheLayers]
    /\ output' = FreshRun
    /\ pc' = "ready"
    /\ UNCHANGED <<fs, sources, env, edges, violations>>

NextCache == GetLayer \/ StartEvaluateRules

SpecCache == InitCache /\ [][NextCache]_vars

(* C11: within a run of evaluateRules, after any sequence of earlier       *)
(* lookups, getLayer (in either of its two copies) returns for every file  *)
(* what matchLayer returns for it under the run's layers; the cache holds  *)
(* exactly positive matches, each equal to matchLayer's answer, never a    *)
(* "no layer" entry, so a file is skipped by rule evaluation exactly when  *)
(* matchLayer gives it no (or an empty) layer; a run starts with an empty  *)
(* cache.                                                                  *)
C11_MemoizedEqualsUncached ==
    LET uncached(f) == matchLayer(f, input.layers)
        positive(cache) ==
            \A f \in DOMAIN cache :
                uncached(f) # Null /\ uncached(f)[1] # "" /\ cache[f] = uncached(f)[1]
    IN  /\ positive(output.fileToLayer)
        /\ positive(output.fileToLayerHas)
        /\ pc = "ready" => output.fileToLayer = EmptyCache /\ output.fileToLayerHas = EmptyCache
        /\ pc = "looked" =>
               /\ output.layer = uncached(output.file[1])
               /\ output.layerHas = uncached(output.file[1])
               /\ Truthy(output.layer) = Truthy(uncached(output.file[1]))
               /\ \A f \in CacheFiles :
                      /\ getLayer(output.fileToLayer, f, input.layers).layer = uncached(f)
                      /\ getLayerHas(output.fileToLayerHas, f, input.layers).layer = uncached(f)

\* The third lookup of a run asks again for data/b.ts and the cache answers
\* it, after misc/x.ts was looked up without leaving an entry.
C11_Witness ==
    /\ pc = "looked"
    /\ input.layers = Layers
    /\ output.lookups = <<MiscX, DataB, DataB>>
    /\ output.hit
    /\ output.layer = Some("data")
    /\ output.layerHas = Some("data")
    /\ DOMAIN output.fileToLayer = {DataB}

=============================================================================
